---- MODULE Spec2Model ----
(***************************************************************************)
(* The Lucide icon picker field extension (IconPicker) as a state machine. *)
(*                                                                         *)
(* A JavaScript string is a sequence of one-character strings, so that the *)
(* casing conversions and the 'lucide:' prefix handling are computed and   *)
(* not assumed.  null and undefined are the one-element sequences Null and *)
(* Undefined, whose element is longer than one character and so can never  *)
(* be confused with a string.                                              *)
(***************************************************************************)
EXTENDS Naturals, Sequences, FiniteSets, TLC

----------------------------------------------------------------------------
(* JavaScript values *)

Null == <<"null">>
Undefined == <<"undefined">>
EmptyStr == <<>>

\* JavaScript truthiness of a string | null | undefined value.
Truthy(v) == v # Null /\ v # Undefined /\ v # EmptyStr

\* The value as it is, without || null.
KeepValue(v) == v

\* (x as string | null) || null
OrNull(v) == IF Truthy(v) THEN v ELSE Null

LowerChars == <<"a","b","c","d","e","f","g","h","i","j","k","l","m",
                "n","o","p","q","r","s","t","u","v","w","x","y","z">>
UpperChars == <<"A","B","C","D","E","F","G","H","I","J","K","L","M",
                "N","O","P","Q","R","S","T","U","V","W","X","Y","Z">>
DigitChars == <<"0","1","2","3","4","5","6","7","8","9">>

Range(f) == {f[i] : i \in DOMAIN f}

LowerSet == Range(LowerChars)
UpperSet == Range(UpperChars)
DigitSet == Range(DigitChars)

IsLower(c) == c \in LowerSet
IsUpper(c) == c \in UpperSet
IsDigit(c) == c \in DigitSet
IsAlnum(c) == IsLower(c) \/ IsUpper(c) \/ IsDigit(c)

IndexIn(c, cs) == CHOOSE i \in DOMAIN cs : cs[i] = c

\* String.prototype.toLowerCase / toUpperCase on one character.
LowerOf(c) == IF IsUpper(c) THEN LowerChars[IndexIn(c, UpperChars)] ELSE c
UpperOf(c) == IF IsLower(c) THEN UpperChars[IndexIn(c, LowerChars)] ELSE c

toLowerCase(s) == [i \in DOMAIN s |-> LowerOf(s[i])]
toUpperCase(s) == [i \in DOMAIN s |-> UpperOf(s[i])]

\* s.startsWith(p), s.endsWith(p), s.includes(p)
startsWith(s, p) == Len(p) <= Len(s) /\ SubSeq(s, 1, Len(p)) = p
endsWith(s, p) == Len(p) <= Len(s) /\ SubSeq(s, Len(s) - Len(p) + 1, Len(s)) = p
OccursAt(s, p, i) == i + Len(p) - 1 <= Len(s) /\ SubSeq(s, i, i + Len(p) - 1) = p
includes(s, p) == \E i \in 1..(Len(s) + 1) : OccursAt(s, p, i)

\* s.replace(p, '') with a string pattern: the first occurrence only.
replaceFirst(s, p) ==
    IF includes(s, p)
    THEN LET i == CHOOSE k \in 1..(Len(s) + 1) :
                      OccursAt(s, p, k) /\ \A j \in 1..(k - 1) : ~OccursAt(s, p, j)
         IN SubSeq(s, 1, i - 1) \o SubSeq(s, i + Len(p), Len(s))
    ELSE s

----------------------------------------------------------------------------
(* change-case: kebabCase and pascalCase *)

\* A word boundary falls between s[i] and s[i+1]: lower-or-digit then upper,
\* or upper then upper-followed-by-lower.
WordBoundary(s, i) ==
    /\ i < Len(s)
    /\ \/ (IsLower(s[i]) \/ IsDigit(s[i])) /\ IsUpper(s[i + 1])
       \/ /\ IsUpper(s[i]) /\ IsUpper(s[i + 1])
          /\ i + 2 <= Len(s) /\ IsLower(s[i + 2])

RECURSIVE SplitFrom(_, _, _, _)
SplitFrom(s, i, cur, acc) ==
    LET flushed == IF cur = <<>> THEN acc ELSE Append(acc, cur) IN
    IF i > Len(s) THEN flushed
    ELSE IF ~IsAlnum(s[i]) THEN SplitFrom(s, i + 1, <<>>, flushed)
    ELSE IF WordBoundary(s, i)
         THEN SplitFrom(s, i + 1, <<>>, Append(acc, Append(cur, s[i])))
         ELSE SplitFrom(s, i + 1, Append(cur, s[i]), acc)

\* The words of an identifier.
SplitWords(s) == SplitFrom(s, 1, <<>>, <<>>)

RECURSIVE JoinWith(_, _)
JoinWith(ws, d) ==
    IF ws = <<>> THEN <<>>
    ELSE IF Len(ws) = 1 THEN ws[1]
    ELSE ws[1] \o d \o JoinWith(Tail(ws), d)

kebabCase(s) ==
    LET ws == SplitWords(s)
    IN JoinWith([i \in DOMAIN ws |-> toLowerCase(ws[i])], <<"-">>)

PascalWord(w, index) ==
    LET initial == IF index > 1 /\ IsDigit(w[1]) THEN <<"_", w[1]>>
                   ELSE <<UpperOf(w[1])>>
    IN initial \o toLowerCase(Tail(w))

pascalCase(s) ==
    LET ws == SplitWords(s)
    IN JoinWith([i \in DOMAIN ws |-> PascalWord(ws[i], i)], <<>>)


----------------------------------------------------------------------------
(* Strings of the program and of its fixtures *)

LucidePrefix == <<"l","u","c","i","d","e",":">>
DotChar == "."

s_icon == <<"i","c","o","n">>
s_blocks == <<"b","l","o","c","k","s">>
s_licon == <<"l","i","c","o","n">>
p_icon == s_icon
p_nested == <<"b","l","o","c","k","s",".","0",".","l","i","c","o","n">>

n_AArrowDown == <<"A","A","r","r","o","w","D","o","w","n">>
n_Accessibility == <<"A","c","c","e","s","s","i","b","i","l","i","t","y">>
n_ArrowDownAZ == <<"A","r","r","o","w","D","o","w","n","A","Z">>
n_AccessibilityIcon == <<"A","c","c","e","s","s","i","b","i","l","i","t","y","I","c","o","n">>
n_LucideAccessibility == <<"L","u","c","i","d","e","A","c","c","e","s","s","i","b","i","l","i","t","y">>
n_createLucideIcon == <<"c","r","e","a","t","e","L","u","c","i","d","e","I","c","o","n">>
n_Icon == <<"I","c","o","n">>
n_icons == <<"i","c","o","n","s">>

v_accessibility == <<"l","u","c","i","d","e",":","a","c","c","e","s","s","i","b","i","l","i","t","y">>
v_a_arrow_down == <<"l","u","c","i","d","e",":","a","-","a","r","r","o","w","-","d","o","w","n">>
v_unknown == <<"l","u","c","i","d","e",":","z","z","z">>

q_arrow == <<"a","r","r","o","w">>
q_ACC == <<"A","C","C">>

----------------------------------------------------------------------------
(* The icon catalog *)

\* Object.keys(LucideIcons): every icon is exported under its name, under
\* <name>Icon and under Lucide<name>, beside the helper exports.
LucideExports ==
    << n_AArrowDown, n_Accessibility, n_AccessibilityIcon, n_ArrowDownAZ,
       n_LucideAccessibility, n_createLucideIcon, n_Icon, n_icons >>

\* The exports that are renderable components (iconsMap[key] is truthy).
iconsMap == Range(LucideExports) \ {n_icons, n_createLucideIcon}

\* Every export taken as an icon.
IsExportKey(key) == TRUE

IsIconKey(key) ==
    /\ <<key[1]>> = toUpperCase(<<key[1]>>)
    /\ ~endsWith(key, n_Icon)
    /\ key # n_createLucideIcon
    /\ key # n_Icon
    /\ ~startsWith(key, <<"L","u","c","i","d","e">>)

ALL_ICONS == SelectSeq(LucideExports, IsIconKey)

----------------------------------------------------------------------------
(* The host context: a field path and a tree of form values *)

Leaf(v) == [t |-> "leaf", v |-> v, kids |-> <<>>]
ObjNode(f) == [t |-> "obj", v |-> <<>>, kids |-> f]
ArrNode(s) == [t |-> "arr", v |-> <<>>, kids |-> s]
UndefinedNode == Leaf(Undefined)

\* path.split('.')
RECURSIVE SplitDots(_, _, _)
SplitDots(s, cur, acc) ==
    IF s = <<>> THEN Append(acc, cur)
    ELSE IF Head(s) = DotChar THEN SplitDots(Tail(s), <<>>, Append(acc, cur))
    ELSE SplitDots(Tail(s), Append(cur, Head(s)), acc)

\* The array index a property key denotes: a canonical decimal numeral.
IsIndexKey(key) ==
    /\ key # <<>>
    /\ \A i \in DOMAIN key : IsDigit(key[i])
    /\ (Len(key) > 1 => key[1] # "0")

RECURSIVE IndexValue(_)
IndexValue(key) ==
    IF key = <<>> THEN 0
    ELSE 10 * IndexValue(SubSeq(key, 1, Len(key) - 1))
         + (IndexIn(key[Len(key)], DigitChars) - 1)

\* (current as Record<string, unknown>)[key]; own properties only.
Member(current, key) ==
    IF current.t = "obj"
    THEN IF key \in DOMAIN current.kids THEN current.kids[key] ELSE UndefinedNode
    ELSE IF current.t = "arr"
    THEN IF IsIndexKey(key) /\ IndexValue(key) < Len(current.kids)
         THEN current.kids[IndexValue(key) + 1] ELSE UndefinedNode
    ELSE IF IsIndexKey(key) /\ IndexValue(key) < Len(current.v)
         THEN Leaf(<<current.v[IndexValue(key) + 1]>>) ELSE UndefinedNode

RECURSIVE ReducePath(_, _)
ReducePath(current, keys) ==
    IF keys = <<>> THEN current
    ELSE ReducePath(
           IF current.t = "leaf" /\ current.v \in {Null, Undefined}
           THEN UndefinedNode
           ELSE Member(current, Head(keys)),
           Tail(keys))

\* The whole path taken as one key of the object: obj[path]
getFlatValue(obj, path) == Member(obj, path)

\* path.split('.').reduce(..., obj)
getNestedValue(obj, path) == ReducePath(obj, SplitDots(path, <<>>, <<>>))

\* What a node is as a JavaScript value: the leaf's value, or an object.
ObjectValue == <<"object">>
NodeValue(n) == IF n.t = "leaf" THEN n.v ELSE ObjectValue

FlatCtx(v) ==
    [fieldPath |-> p_icon, formValues |-> ObjNode([k \in {s_icon} |-> Leaf(v)])]
NestedCtx(v) ==
    [fieldPath |-> p_nested,
     formValues |-> ObjNode([k \in {s_blocks} |->
                      ArrNode(<<ObjNode([j \in {s_licon} |-> Leaf(v)])>>)])]

NoCtx == [fieldPath |-> EmptyStr, formValues |-> UndefinedNode]

\* The contexts the host may supply, on mount and on every later render,
\* and the value the host stores at the field in each of them.  The state
\* holds the position of a context in this list; 0 is no context.
HostStored == << Null, v_accessibility, v_a_arrow_down, v_unknown >>
HostContextList ==
    << FlatCtx(HostStored[1]), FlatCtx(HostStored[2]), FlatCtx(HostStored[3]),
       NestedCtx(HostStored[4]) >>
HostContexts == DOMAIN HostContextList

\* Contexts in which the field holds nothing: the key is missing, the value
\* is undefined or the empty string, the form values are null, the array of
\* the path is empty, or a member on the path is null.
MissingKeyCtx ==
    [fieldPath |-> p_icon, formValues |-> ObjNode([k \in {s_licon} |-> Leaf(Null)])]
NullRootCtx == [fieldPath |-> p_icon, formValues |-> Leaf(Null)]
EmptyArrayCtx ==
    [fieldPath |-> p_nested,
     formValues |-> ObjNode([k \in {s_blocks} |-> ArrNode(<<>>)])]
NullMemberCtx ==
    [fieldPath |-> p_nested, formValues |-> ObjNode([k \in {s_blocks} |-> Leaf(Null)])]
AbsentContextList ==
    << MissingKeyCtx, FlatCtx(Undefined), FlatCtx(EmptyStr), NullRootCtx,
       EmptyArrayCtx, NullMemberCtx >>
AbsentContexts ==
    {Len(HostContextList) + i : i \in DOMAIN AbsentContextList} \cup {1}

CtxOf(c) ==
    IF c \in HostContexts THEN HostContextList[c]
    ELSE IF c \in AbsentContexts THEN AbsentContextList[c - Len(HostContextList)]
    ELSE NoCtx


k_a_arrow_down == <<"a","-","a","r","r","o","w","-","d","o","w","n">>
k_accessibility == <<"a","c","c","e","s","s","i","b","i","l","i","t","y">>

\* What the category endpoint may answer: an empty object, or the index
\* of the test fixture.
EmptyIndex == [k \in {} |-> {}]
FixtureIndex ==
    [k \in {k_a_arrow_down, k_accessibility} |->
        IF k = k_a_arrow_down THEN {"arrows"} ELSE {"accessibility", "medical"}]
CategoryPayloads == {EmptyIndex, FixtureIndex}

\* The values of CATEGORY_OPTIONS the model offers ('' is All Categories).
CategoryChoices == {"", "arrows", "medical"}
SearchTerms == {EmptyStr, q_arrow, q_ACC}

\* The most select/clear actions of one behaviour.
MaxActs == 2

----------------------------------------------------------------------------
(* State *)

VARIABLES
    mounted,            \* the component instance exists
    ctx,                \* the props of the latest render (a position in HostContextList)
    hasUserInteracted,  \* useRef(false)
    seenInteracted,     \* hasUserInteracted.current as the latest render read it
    localValue,         \* useState(formValue)
    selectedValueRef,   \* useRef(...) of the ref-based component
    isExpanded,         \* useState(false)
    search,             \* useState('')
    category,           \* useState('')
    categoryData,       \* useState({})
    syncPending,        \* the [formValue] effect of the latest render has not run yet
    fetchStatus,        \* the category fetch of this mount
    requests,           \* the calls of ctx.setFieldValue, in order, with their settlement
    lastChoice,         \* history: the value the latest selectIcon/clearIcon of this mount set
    userActs,           \* history: how many selectIcon/clearIcon have run
    lastUser,           \* history: the latest user input of this mount
    hostSince,          \* history: the host has rendered since the latest selectIcon/clearIcon
    resizer             \* the [ctx] effect: scheduled or not, and the starts less the stops

vars == << mounted, ctx, hasUserInteracted, seenInteracted, localValue, selectedValueRef,
           isExpanded, search, category, categoryData, syncPending, fetchStatus,
           requests, lastChoice, userActs, lastUser, hostSince, resizer >>

\* The filter inputs and the category fetch.
filterVars == << search, category, categoryData, fetchStatus >>
\* The history of the user's selections.
choiceVars == << lastChoice, userActs >>

NoChoice == <<"none">>

----------------------------------------------------------------------------
(* What a render computes *)

\* const formValue = (getNestedValue(ctx.formValues, ctx.fieldPath) as string | null) || null
\* The field's value looked up by the whole path as a single key:
\* (ctx.formValues[ctx.fieldPath] as string | null) || null
formValueFlat(c) ==
    OrNull(NodeValue(Member(CtxOf(c).formValues, CtxOf(c).fieldPath)))

formValueOf(c) ==
    OrNull(NodeValue(getNestedValue(CtxOf(c).formValues, CtxOf(c).fieldPath)))
FormValueTable ==
    [c \in HostContexts \cup AbsentContexts \cup {0} |-> formValueOf(c)]
formValue == FormValueTable[ctx]
fieldPath == CtxOf(ctx).fieldPath

\* const selectedValue = hasUserInteracted.current ? localValue : formValue,
\* as the latest render computed it.  A render follows every change of the
\* props or of a useState value; writing to a ref causes none.
selectedValue == IF seenInteracted THEN localValue ELSE formValue

\* selectedValue?.replace('lucide:', '') || null
currentIconNameOf(v) ==
    IF v = Null THEN Null ELSE OrNull(replaceFirst(v, LucidePrefix))

\* The icon looked up by the stored name as it is: iconsMap[currentIconName]
CurrentIconByStoredName(v) ==
    currentIconNameOf(v) # Null /\ currentIconNameOf(v) \in iconsMap

\* Every stored name taken to have an icon: the lookup is not consulted.
CurrentIconAssumed(v) == currentIconNameOf(v) # Null

\* currentIconName ? iconsMap[pascalCase(currentIconName)] : null, as a truth value
CurrentIconOf(v) ==
    LET name == currentIconNameOf(v)
    IN name # Null /\ pascalCase(name) \in iconsMap

\* The identifier stored as the catalog spells it: `lucide:${pascalName}`
NewValuePascal(pascalName) == LucidePrefix \o pascalName

\* `lucide:${kebabCase(pascalName)}`
NewValueOf(pascalName) == LucidePrefix \o kebabCase(pascalName)
NewValueTable == [n \in Range(ALL_ICONS) |-> NewValueOf(n)]

\* Every value the selection can hold.
StoredValues ==
    {Null} \cup Range(FormValueTable) \cup Range(NewValueTable)
CurrentIconTable == [v \in StoredValues |-> CurrentIconOf(v)]

currentIconName == currentIconNameOf(selectedValue)
CurrentIcon == CurrentIconTable[selectedValue]

\* The filter with the category stage applied whenever a category is chosen.
FilterIconsStrict(searchTerm, categoryTag, index) ==
    LET InCategory(name) ==
            kebabCase(name) \in DOMAIN index /\ categoryTag \in index[kebabCase(name)]
        MatchesSearch(name) == includes(toLowerCase(name), toLowerCase(searchTerm))
        byCategory == IF categoryTag # ""
                      THEN SelectSeq(ALL_ICONS, InCategory) ELSE ALL_ICONS
    IN IF searchTerm # EmptyStr THEN SelectSeq(byCategory, MatchesSearch)
       ELSE byCategory

\* The filter that lets an entry without an index entry pass every category.
FilterIconsLenient(searchTerm, categoryTag, index) ==
    LET InCategory(name) ==
            kebabCase(name) \notin DOMAIN index \/ categoryTag \in index[kebabCase(name)]
        MatchesSearch(name) == includes(toLowerCase(name), toLowerCase(searchTerm))
        byCategory == IF categoryTag # "" /\ DOMAIN index # {}
                      THEN SelectSeq(ALL_ICONS, InCategory) ELSE ALL_ICONS
    IN IF searchTerm # EmptyStr THEN SelectSeq(byCategory, MatchesSearch)
       ELSE byCategory

\* The filter that matches the search term at the start of the name only.
FilterIconsByPrefix(searchTerm, categoryTag, index) ==
    LET InCategory(name) ==
            kebabCase(name) \in DOMAIN index /\ categoryTag \in index[kebabCase(name)]
        MatchesSearch(name) == startsWith(toLowerCase(name), toLowerCase(searchTerm))
        byCategory == IF categoryTag # "" /\ DOMAIN index # {}
                      THEN SelectSeq(ALL_ICONS, InCategory) ELSE ALL_ICONS
    IN IF searchTerm # EmptyStr THEN SelectSeq(byCategory, MatchesSearch)
       ELSE byCategory

\* The useMemo body of filteredIcons.
FilterIcons(searchTerm, categoryTag, index) ==
    LET InCategory(name) ==
            LET kebabName == kebabCase(name)
                categories == IF kebabName \in DOMAIN index
                              THEN index[kebabName] ELSE {}
            IN categoryTag \in categories
        MatchesSearch(name) == includes(toLowerCase(name), toLowerCase(searchTerm))
        byCategory == IF categoryTag # "" /\ DOMAIN index # {}
                      THEN SelectSeq(ALL_ICONS, InCategory) ELSE ALL_ICONS
    IN IF searchTerm # EmptyStr THEN SelectSeq(byCategory, MatchesSearch)
       ELSE byCategory
FilterTable ==
    [s \in SearchTerms, t \in CategoryChoices, d \in CategoryPayloads |->
        FilterIcons(s, t, d)]
filteredIcons == FilterTable[search, category, categoryData]

\* const showPicker = isExpanded
showPicker == isExpanded

\* The buttons of the current-selection block: Change / Cancel and Remove
\* beside a current icon, Add beside 'No icon selected'.
ChangeShown == CurrentIcon
RemoveShown == CurrentIcon
AddShown == ~CurrentIcon

\* The button beside the current icon reads Cancel: {isExpanded ? 'Cancel' : 'Change'}
CancelShown == CurrentIcon /\ isExpanded

\* ctx.setFieldValue(path, value), not yet acknowledged.
Request(path, value, by) ==
    [path |-> path, value |-> value, by |-> by, status |-> "pending"]

----------------------------------------------------------------------------
(* The component with the interaction flag (hasUserInteracted) *)

\* The [ctx] effect as a function that hands back no cleanup: every run
\* starts the resizer and nothing stops it.
ResizerEffectWithoutCleanup(r) ==
    [pending |-> FALSE, running |-> r.running + 1]

\* A run of the [ctx] effect: the cleanup of its previous run, if it has
\* run in this mount, and then its body.
\*   useEffect(() => { ctx.startAutoResizer();
\*                     return () => { ctx.stopAutoResizer(); }; }, [ctx])
ResizerEffect(r) ==
    IF r.running > 0
    THEN [pending |-> FALSE, running |-> (r.running - 1) + 1]
    ELSE [pending |-> FALSE, running |-> r.running + 1]

\* The [ctx] effect is run if it is scheduled.
ResizerFlushed(r) == IF r.pending THEN ResizerEffect(r) ELSE r

\* The cleanup on unmount, after a scheduled run of the effect.
ResizerUnmounted(r) ==
    LET f == ResizerFlushed(r)
    IN [pending |-> FALSE,
        running |-> IF f.running > 0 THEN f.running - 1 ELSE f.running]

Init ==
    /\ mounted = FALSE
    /\ ctx = 0
    /\ hasUserInteracted = FALSE
    /\ seenInteracted = FALSE
    /\ localValue = Null
    /\ selectedValueRef = Null
    /\ isExpanded = FALSE
    /\ search = EmptyStr
    /\ category = ""
    /\ categoryData = EmptyIndex
    /\ syncPending = FALSE
    /\ fetchStatus = "idle"
    /\ requests = <<>>
    /\ lastChoice = NoChoice
    /\ userActs = 0
    /\ lastUser = "none"
    /\ hostSince = FALSE
    /\ resizer = [pending |-> FALSE, running |-> 0]

\* A mount that takes up the selection of the previous mount.
MountKeepingSelection(c) ==
    /\ ~mounted
    /\ mounted' = TRUE
    /\ ctx' = c
    /\ hasUserInteracted' = (requests # <<>>)
    /\ seenInteracted' = (requests # <<>>)
    /\ localValue' = IF requests # <<>> THEN requests[Len(requests)].value
                     ELSE formValueOf(c)
    /\ isExpanded' = FALSE
    /\ search' = EmptyStr
    /\ category' = ""
    /\ categoryData' = EmptyIndex
    /\ syncPending' = TRUE
    /\ fetchStatus' = "pending"
    /\ lastChoice' = NoChoice
    /\ lastUser' = "none"
    /\ hostSince' = FALSE
    /\ resizer' = [pending |-> TRUE, running |-> resizer.running]
    /\ UNCHANGED << selectedValueRef, requests, userActs >>

\* The first render of <IconPicker ctx={c} />, and the effects it schedules.
Mount(c) ==
    /\ ~mounted
    /\ mounted' = TRUE
    /\ ctx' = c
    /\ hasUserInteracted' = FALSE
    /\ seenInteracted' = FALSE
    /\ localValue' = formValueOf(c)
    /\ isExpanded' = FALSE
    /\ search' = EmptyStr
    /\ category' = ""
    /\ categoryData' = EmptyIndex
    /\ syncPending' = TRUE
    /\ fetchStatus' = "pending"
    /\ lastChoice' = NoChoice
    /\ lastUser' = "none"
    /\ hostSince' = FALSE
    /\ resizer' = [pending |-> TRUE, running |-> resizer.running]
    /\ UNCHANGED << selectedValueRef, requests, userActs >>

\* The effect without its guard: setLocalValue(formValue) on every change.
SyncedAlways == formValue

\* The effect guarded by the flag as the latest render saw it, as a flag
\* kept in state would be.
SyncedBySeenFlag == IF ~seenInteracted THEN formValue ELSE localValue

\* The body of the [formValue] effect: what localValue is after it.
SyncedLocal == IF ~hasUserInteracted THEN formValue ELSE localValue

\* The passive effects of the latest render run, some time after it: the
\* [formValue] effect and the [ctx] effect, whichever the render scheduled.
\* A setLocalValue that changes the state renders again.
RunSyncEffect ==
    /\ mounted /\ (syncPending \/ resizer.pending)
    /\ localValue' = IF syncPending THEN SyncedLocal ELSE localValue
    /\ seenInteracted' = IF localValue' # localValue THEN hasUserInteracted
                         ELSE seenInteracted
    /\ syncPending' = FALSE
    /\ resizer' = ResizerFlushed(resizer)
    /\ UNCHANGED << mounted, ctx, hasUserInteracted, selectedValueRef, isExpanded,
                    filterVars, requests, choiceVars, lastUser, hostSince >>

\* A host render that takes the host's value as the local one, interacted
\* or not.
HostRenderResetting(c) ==
    /\ mounted
    /\ localValue' = formValueOf(c)
    /\ ctx' = c
    /\ seenInteracted' = hasUserInteracted
    /\ syncPending' = FALSE
    /\ hostSince' = TRUE
    /\ resizer' = [ResizerFlushed(resizer) EXCEPT !.pending = TRUE]
    /\ UNCHANGED << mounted, hasUserInteracted, selectedValueRef, isExpanded,
                    filterVars, requests, choiceVars, lastUser >>

\* A host render that writes the value it received back to the host.
HostRenderWriting(c) ==
    /\ mounted
    /\ Len(requests) <= MaxActs
    /\ localValue' = IF syncPending THEN SyncedLocal ELSE localValue
    /\ ctx' = c
    /\ seenInteracted' = hasUserInteracted
    /\ syncPending' = (formValueOf(c) # formValue)
    /\ hostSince' = TRUE
    /\ requests' = Append(requests,
                          Request(CtxOf(c).fieldPath, formValueOf(c), "host"))
    /\ resizer' = [ResizerFlushed(resizer) EXCEPT !.pending = TRUE]
    /\ UNCHANGED << mounted, hasUserInteracted, selectedValueRef, isExpanded,
                    filterVars, choiceVars, lastUser >>

\* The host renders the component again with context c.  An effect still
\* pending from the previous render is flushed before the new render.
HostRender(c) ==
    /\ mounted
    /\ localValue' = IF syncPending THEN SyncedLocal ELSE localValue
    /\ ctx' = c
    /\ seenInteracted' = hasUserInteracted
    /\ syncPending' = (formValueOf(c) # formValue)
    /\ hostSince' = TRUE
    /\ resizer' = [ResizerFlushed(resizer) EXCEPT !.pending = TRUE]
    /\ UNCHANGED << mounted, hasUserInteracted, selectedValueRef, isExpanded,
                    filterVars, requests, choiceVars, lastUser >>

\* A selection that waits for the host before it touches its own state.
selectIconAwaiting(pascalName) ==
    /\ mounted /\ showPicker
    /\ pascalName \in Range(filteredIcons)
    /\ userActs < MaxActs
    /\ requests' = Append(requests,
                          Request(fieldPath, NewValueTable[pascalName], "select"))
    /\ lastChoice' = NewValueTable[pascalName]
    /\ userActs' = userActs + 1
    /\ lastUser' = "select"
    /\ hostSince' = FALSE
    /\ UNCHANGED << resizer, mounted, ctx, hasUserInteracted, seenInteracted, localValue,
                    selectedValueRef, isExpanded, filterVars, syncPending >>

\* A selection that never raises hasUserInteracted.
selectIconUnflagged(pascalName) ==
    /\ mounted /\ showPicker
    /\ pascalName \in Range(filteredIcons)
    /\ userActs < MaxActs
    /\ LET newValue == NewValueTable[pascalName] IN
        /\ localValue' = newValue
        /\ isExpanded' = FALSE
        /\ requests' = Append(requests, Request(fieldPath, newValue, "select"))
        /\ lastChoice' = newValue
    /\ seenInteracted' = hasUserInteracted
    /\ userActs' = userActs + 1
    /\ lastUser' = "select"
    /\ hostSince' = FALSE
    /\ UNCHANGED << resizer, mounted, ctx, hasUserInteracted, selectedValueRef,
                    filterVars, syncPending >>

\* A click on a button of the icon grid.  The grid is rendered only while
\* the picker is shown, so setIsExpanded(false) changes the state and the
\* component renders again.
selectIcon(pascalName) ==
    /\ mounted /\ showPicker
    /\ pascalName \in Range(filteredIcons)
    /\ userActs < MaxActs
    /\ LET newValue == NewValueTable[pascalName] IN
        /\ hasUserInteracted' = TRUE
        /\ localValue' = newValue
        /\ isExpanded' = FALSE
        /\ requests' = Append(requests, Request(fieldPath, newValue, "select"))
        /\ lastChoice' = newValue
    /\ seenInteracted' = TRUE
    /\ userActs' = userActs + 1
    /\ lastUser' = "select"
    /\ hostSince' = FALSE
    /\ UNCHANGED << resizer, mounted, ctx, selectedValueRef, filterVars, syncPending >>

\* A Remove that is refused while a request is unacknowledged.
clearIconWhenIdle ==
    /\ mounted /\ CurrentIcon
    /\ userActs < MaxActs
    /\ \A i \in DOMAIN requests : requests[i].status # "pending"
    /\ hasUserInteracted' = TRUE
    /\ localValue' = Null
    /\ seenInteracted' = IF localValue # Null THEN TRUE ELSE seenInteracted
    /\ requests' = Append(requests, Request(fieldPath, Null, "clear"))
    /\ lastChoice' = Null
    /\ userActs' = userActs + 1
    /\ lastUser' = "clear"
    /\ hostSince' = FALSE
    /\ UNCHANGED << resizer, mounted, ctx, selectedValueRef, isExpanded, filterVars,
                    syncPending >>

\* A Remove that empties the widget and tells the host nothing.
clearIconWithoutWrite ==
    /\ mounted /\ CurrentIcon
    /\ userActs < MaxActs
    /\ hasUserInteracted' = TRUE
    /\ localValue' = Null
    /\ seenInteracted' = IF localValue # Null THEN TRUE ELSE seenInteracted
    /\ lastChoice' = Null
    /\ userActs' = userActs + 1
    /\ lastUser' = "clear"
    /\ hostSince' = FALSE
    /\ UNCHANGED << resizer, mounted, ctx, selectedValueRef, isExpanded, filterVars,
                    syncPending, requests >>

\* A click on Remove, which is rendered beside a current icon.  The
\* component renders again only if setLocalValue(null) changes the state.
clearIcon ==
    /\ mounted /\ CurrentIcon
    /\ userActs < MaxActs
    /\ hasUserInteracted' = TRUE
    /\ localValue' = Null
    /\ seenInteracted' = IF localValue # Null THEN TRUE ELSE seenInteracted
    /\ requests' = Append(requests, Request(fieldPath, Null, "clear"))
    /\ lastChoice' = Null
    /\ userActs' = userActs + 1
    /\ lastUser' = "clear"
    /\ hostSince' = FALSE
    /\ UNCHANGED << resizer, mounted, ctx, selectedValueRef, isExpanded, filterVars,
                    syncPending >>

\* A click on Change / Cancel: setIsExpanded(!isExpanded).
ToggleExpanded ==
    /\ mounted /\ CurrentIcon
    /\ isExpanded' = ~isExpanded
    /\ seenInteracted' = hasUserInteracted
    /\ lastUser' = "other"
    /\ UNCHANGED << resizer, mounted, ctx, hasUserInteracted, localValue, selectedValueRef,
                    filterVars, syncPending, requests, choiceVars, hostSince >>

\* A click on Add, which is rendered when there is no current icon:
\* setIsExpanded(true).
AddClicked ==
    /\ mounted /\ ~CurrentIcon
    /\ isExpanded' = TRUE
    /\ seenInteracted' = IF ~isExpanded THEN hasUserInteracted ELSE seenInteracted
    /\ lastUser' = "other"
    /\ UNCHANGED << resizer, mounted, ctx, hasUserInteracted, localValue, selectedValueRef,
                    filterVars, syncPending, requests, choiceVars, hostSince >>

\* Typing in the search input.
SetSearch(term) ==
    /\ mounted /\ showPicker
    /\ term # search
    /\ search' = term
    /\ seenInteracted' = hasUserInteracted
    /\ lastUser' = "other"
    /\ UNCHANGED << resizer, mounted, ctx, hasUserInteracted, localValue, selectedValueRef,
                    isExpanded, category, categoryData, fetchStatus, syncPending,
                    requests, choiceVars, hostSince >>

\* Choosing a category: setCategory(newValue?.value || '').
SetCategory(tag) ==
    /\ mounted /\ showPicker
    /\ tag # category
    /\ category' = tag
    /\ seenInteracted' = hasUserInteracted
    /\ lastUser' = "other"
    /\ UNCHANGED << resizer, mounted, ctx, hasUserInteracted, localValue, selectedValueRef,
                    isExpanded, search, categoryData, fetchStatus, syncPending,
                    requests, choiceVars, hostSince >>

\* A fetch completion that starts the component's state over.
FetchResolvedResetting(data) ==
    /\ mounted /\ fetchStatus = "pending"
    /\ categoryData' = data
    /\ fetchStatus' = "done"
    /\ hasUserInteracted' = FALSE
    /\ seenInteracted' = FALSE
    /\ localValue' = formValue
    /\ isExpanded' = FALSE
    /\ UNCHANGED << resizer, mounted, ctx, selectedValueRef, search, category, syncPending,
                    requests, choiceVars, lastUser, hostSince >>

\* fetch(...).then(res => res.json()).then(data => setCategoryData(data))
FetchResolved(data) ==
    /\ mounted /\ fetchStatus = "pending"
    /\ categoryData' = data
    /\ fetchStatus' = "done"
    /\ seenInteracted' = hasUserInteracted
    /\ UNCHANGED << resizer, mounted, ctx, hasUserInteracted, localValue, selectedValueRef,
                    isExpanded, search, category, syncPending, requests, choiceVars,
                    lastUser, hostSince >>

\* .catch(() => {})
FetchFailed ==
    /\ mounted /\ fetchStatus = "pending"
    /\ fetchStatus' = "failed"
    /\ UNCHANGED << resizer, mounted, ctx, hasUserInteracted, seenInteracted, localValue,
                    selectedValueRef, isExpanded, search, category, categoryData,
                    syncPending, requests, choiceVars, lastUser, hostSince >>

\* What the i-th request is once its promise has settled.  What follows the
\* await in selectIcon and clearIcon only writes to the console.
SettledRequests(i, outcome) == [requests EXCEPT ![i].status = outcome]

\* A settlement that takes the selection back when the host rejects it.
SettledRollingBack(i, outcome) ==
    /\ i \in DOMAIN requests
    /\ requests[i].status = "pending"
    /\ requests' = SettledRequests(i, outcome)
    /\ hasUserInteracted' = IF outcome = "rejected" THEN FALSE ELSE hasUserInteracted
    /\ seenInteracted' = IF outcome = "rejected" THEN FALSE ELSE seenInteracted
    /\ localValue' = IF outcome = "rejected" THEN formValue ELSE localValue
    /\ UNCHANGED << resizer, mounted, ctx, selectedValueRef, isExpanded, filterVars,
                    syncPending, choiceVars, lastUser, hostSince >>

\* The handler that issued the request awaits it inside a try / catch:
\* selectIcon does and writes a rejection to the console; clearIcon awaits
\* it bare, so that a rejection rejects the promise the async handler
\* returned, which nothing handles.
CatchesRejection(by) == by = "select"

\* The promise of the i-th setFieldValue call resolves or rejects.
Settled(i, outcome) ==
    /\ i \in DOMAIN requests
    /\ requests[i].status = "pending"
    /\ requests' = SettledRequests(i, outcome)
    /\ UNCHANGED << resizer, mounted, ctx, hasUserInteracted, seenInteracted, localValue,
                    selectedValueRef, isExpanded, filterVars, syncPending,
                    choiceVars, lastUser, hostSince >>

\* The host removes the component: its state and its refs are discarded.
Unmount ==
    /\ mounted
    /\ mounted' = FALSE
    /\ ctx' = 0
    /\ hasUserInteracted' = FALSE
    /\ seenInteracted' = FALSE
    /\ localValue' = Null
    /\ selectedValueRef' = Null
    /\ isExpanded' = FALSE
    /\ search' = EmptyStr
    /\ category' = ""
    /\ categoryData' = EmptyIndex
    /\ syncPending' = FALSE
    /\ fetchStatus' = "idle"
    /\ lastChoice' = NoChoice
    /\ lastUser' = "none"
    /\ hostSince' = FALSE
    /\ resizer' = ResizerUnmounted(resizer)
    /\ UNCHANGED << requests, userActs >>

\* The selection reconciler: the host, the user's selection and visibility
\* actions and the settlement of the write requests, with the filters left
\* as mounted (every catalog icon is offered in the grid).
Next ==
    \/ \E c \in HostContexts : Mount(c)
    \/ RunSyncEffect
    \/ \E c \in HostContexts : HostRender(c)
    \/ \E name \in Range(ALL_ICONS) : selectIcon(name)
    \/ clearIcon
    \/ ToggleExpanded
    \/ AddClicked
    \/ \E i \in 1..MaxActs, outcome \in {"resolved", "rejected"} : Settled(i, outcome)
    \/ Unmount

Spec == Init /\ [][Next]_vars


----------------------------------------------------------------------------
(* The component that keeps the selection in a ref (selectedValueRef) *)

\* const selectedValue = selectedValueRef.current
RefSelectedValue == selectedValueRef
RefCurrentIcon == CurrentIconTable[RefSelectedValue]

\* const showPicker = isExpanded || !selectedValue
RefShowPicker == isExpanded \/ ~Truthy(RefSelectedValue)

\* The first render: useRef takes its initial value from the context.
RefMount(c) ==
    /\ ~mounted
    /\ mounted' = TRUE
    /\ ctx' = c
    /\ selectedValueRef' = formValueFlat(c)
    /\ isExpanded' = FALSE
    /\ search' = EmptyStr
    /\ category' = ""
    /\ categoryData' = EmptyIndex
    /\ fetchStatus' = "pending"
    /\ lastChoice' = NoChoice
    /\ lastUser' = "none"
    /\ hostSince' = FALSE
    /\ UNCHANGED << resizer, hasUserInteracted, seenInteracted, localValue, syncPending,
                    requests, userActs >>

\* A later render with context c: useRef ignores its argument; the
\* callbacks are rebuilt over the new context.
RefHostRender(c) ==
    /\ mounted
    /\ ctx' = c
    /\ hostSince' = TRUE
    /\ UNCHANGED << resizer, mounted, hasUserInteracted, seenInteracted, localValue,
                    selectedValueRef, isExpanded, filterVars, syncPending,
                    requests, choiceVars, lastUser >>

RefSelectIcon(pascalName) ==
    /\ mounted /\ RefShowPicker
    /\ pascalName \in Range(filteredIcons)
    /\ userActs < MaxActs
    /\ LET newValue == NewValueTable[pascalName] IN
        /\ selectedValueRef' = newValue
        /\ requests' = Append(requests, Request(fieldPath, newValue, "select"))
        /\ lastChoice' = newValue
    /\ isExpanded' = FALSE
    /\ userActs' = userActs + 1
    /\ lastUser' = "select"
    /\ hostSince' = FALSE
    /\ UNCHANGED << resizer, mounted, ctx, hasUserInteracted, seenInteracted, localValue,
                    filterVars, syncPending >>

RefClearIcon ==
    /\ mounted /\ RefCurrentIcon
    /\ userActs < MaxActs
    /\ selectedValueRef' = Null
    /\ requests' = Append(requests, Request(fieldPath, Null, "clear"))
    /\ lastChoice' = Null
    /\ userActs' = userActs + 1
    /\ lastUser' = "clear"
    /\ hostSince' = FALSE
    /\ UNCHANGED << resizer, mounted, ctx, hasUserInteracted, seenInteracted, localValue,
                    isExpanded, filterVars, syncPending >>

\* A click on Change / Cancel: setIsExpanded(!isExpanded).
RefToggleExpanded ==
    /\ mounted /\ RefCurrentIcon
    /\ isExpanded' = ~isExpanded
    /\ lastUser' = "other"
    /\ UNCHANGED << resizer, mounted, ctx, hasUserInteracted, seenInteracted, localValue,
                    selectedValueRef, filterVars, syncPending, requests,
                    choiceVars, hostSince >>

NextRef ==
    \/ \E c \in HostContexts : RefMount(c)
    \/ \E c \in HostContexts : RefHostRender(c)
    \/ \E name \in Range(ALL_ICONS) : RefSelectIcon(name)
    \/ RefClearIcon
    \/ RefToggleExpanded
    \/ \E i \in 1..MaxActs, outcome \in {"resolved", "rejected"} : Settled(i, outcome)
    \/ Unmount

SpecRef == Init /\ [][NextRef]_vars

----------------------------------------------------------------------------
(* One mount of the component with its filters: search, category and the
   category fetch *)

\* The contexts the host supplies while the filters are exercised.
FilterContexts == {1, 2}

NextUI ==
    \/ \E c \in FilterContexts : Mount(c)
    \/ RunSyncEffect
    \/ \E c \in FilterContexts : HostRender(c)
    \/ \E name \in Range(ALL_ICONS) : selectIcon(name)
    \/ clearIcon
    \/ ToggleExpanded
    \/ AddClicked
    \/ \E term \in SearchTerms : SetSearch(term)
    \/ \E tag \in CategoryChoices : SetCategory(tag)
    \/ \E data \in CategoryPayloads : FetchResolved(data)
    \/ FetchFailed
    \/ \E i \in 1..MaxActs, outcome \in {"resolved", "rejected"} : Settled(i, outcome)

SpecUI == Init /\ [][NextUI]_vars

----------------------------------------------------------------------------
(* The component with a host that applies its writes and reports them back *)

\* The value the host holds for the field: the value of the latest request
\* it has applied, and before any the value it rendered the component with.
HostValueNow ==
    LET applied == {i \in DOMAIN requests : requests[i].status = "resolved"}
    IN IF applied = {} THEN formValue
       ELSE requests[CHOOSE i \in applied : \A j \in applied : j <= i].value

\* The host applies the oldest request it has not applied yet, and the
\* promise of that setFieldValue call resolves.
HostApplies ==
    \E i \in 1..MaxActs :
        /\ i \in DOMAIN requests
        /\ \A j \in 1..(i - 1) : requests[j].status # "pending"
        /\ Settled(i, "resolved")

\* The host renders the component with the value it holds.
HostReports ==
    \E c \in FilterContexts \cup {3} :
        /\ HostStored[c] = HostValueNow
        /\ HostRender(c)

\* One mount, icons whose storage form the host contexts hold, and a host
\* that changes the field only by applying the widget's requests.
NextHost ==
    \/ \E c \in FilterContexts \cup {3} : Mount(c)
    \/ RunSyncEffect
    \/ HostReports
    \/ \E name \in {n_AArrowDown, n_Accessibility} : selectIcon(name)
    \/ clearIcon
    \/ ToggleExpanded
    \/ AddClicked
    \/ HostApplies

\* The effects of a render run, the host gets to every request and keeps
\* rendering the component with what it holds.
SpecHost ==
    /\ Init /\ [][NextHost]_vars
    /\ WF_vars(RunSyncEffect) /\ WF_vars(HostApplies) /\ WF_vars(HostReports)

----------------------------------------------------------------------------
(* The component under contexts that hold no value for the field *)

\* selectedValue?.replace(...) throws for a value that is neither absent
\* nor a string.
RenderThrows(v) == v = ObjectValue

NextAbsent ==
    \/ \E c \in AbsentContexts \cup {2} : Mount(c)
    \/ RunSyncEffect
    \/ \E c \in AbsentContexts \cup {2} : HostRender(c)
    \/ \E name \in Range(ALL_ICONS) : selectIcon(name)
    \/ clearIcon
    \/ ToggleExpanded
    \/ AddClicked
    \/ Unmount

SpecAbsent == Init /\ [][NextAbsent]_vars

----------------------------------------------------------------------------
(* The first component: own casing functions, search only, no local state *)

\* str.replace(/([a-z0-9])([A-Z])/g, '$1-$2').toLowerCase()
RECURSIVE HyphenateFrom(_, _)
HyphenateFrom(str, i) ==
    IF i > Len(str) THEN <<>>
    ELSE IF /\ i < Len(str)
            /\ (IsLower(str[i]) \/ IsDigit(str[i]))
            /\ IsUpper(str[i + 1])
         THEN << str[i], "-" >> \o HyphenateFrom(str, i + 1)
         ELSE << str[i] >> \o HyphenateFrom(str, i + 1)
toKebabCase(str) == toLowerCase(HyphenateFrom(str, 1))

\* str.split('-')
RECURSIVE SplitHyphens(_, _, _)
SplitHyphens(str, cur, acc) ==
    IF str = <<>> THEN Append(acc, cur)
    ELSE IF Head(str) = "-" THEN SplitHyphens(Tail(str), <<>>, Append(acc, cur))
    ELSE SplitHyphens(Tail(str), Append(cur, Head(str)), acc)

\* s.charAt(0).toUpperCase() + s.slice(1)
CapitalizeFirst(w) ==
    IF w = <<>> THEN <<>> ELSE toUpperCase(<< w[1] >>) \o SubSeq(w, 2, Len(w))

\* str.split('-').map(...).join('')
toPascalCase(str) ==
    LET parts == SplitHyphens(str, <<>>, <<>>)
    IN JoinWith([i \in DOMAIN parts |-> CapitalizeFirst(parts[i])], <<>>)

\* A library with more icons than the list shows at once: the model's
\* exports followed by Zap001 .. Zap098.
NumberedName(i) ==
    << "Z", "a", "p", DigitChars[(i \div 100) + 1],
       DigitChars[((i \div 10) % 10) + 1], DigitChars[(i % 10) + 1] >>
LargeExports == LucideExports \o [i \in 1..98 |-> NumberedName(i)]
LargeCatalog == SelectSeq(LargeExports, IsIconKey)
largeIconsMap == Range(LargeExports) \ {n_icons, n_createLucideIcon}

\* .slice(0, 100)
SliceLimit == 100
Slice(icons) == SubSeq(icons, 1, IF Len(icons) < SliceLimit THEN Len(icons) ELSE SliceLimit)

\* The useMemo body of the first component's filteredIcons.
SearchIcons(searchTerm) ==
    LET MatchesSearch(name) == includes(toLowerCase(name), toLowerCase(searchTerm))
    IN IF searchTerm = EmptyStr THEN Slice(LargeCatalog)
       ELSE Slice(SelectSeq(LargeCatalog, MatchesSearch))
SearchTable == [term \in SearchTerms |-> SearchIcons(term)]
searchedIcons == SearchTable[search]

\* const currentValue = ctx.formValues[ctx.fieldPath] as string | null
currentValueOf(c) == NodeValue(Member(CtxOf(c).formValues, CtxOf(c).fieldPath))
CurrentValueTable == [c \in HostContexts \cup {0} |-> currentValueOf(c)]
currentValue == CurrentValueTable[ctx]

\* currentValue?.replace('lucide:', '') || null, and the icon of that name
PlainIconNameOf(v) ==
    IF v \in {Null, Undefined} THEN Null ELSE OrNull(replaceFirst(v, LucidePrefix))
PlainCurrentIconOf(v) ==
    PlainIconNameOf(v) # Null /\ toPascalCase(PlainIconNameOf(v)) \in largeIconsMap
PlainCurrentIconTable ==
    [v \in Range(CurrentValueTable) |-> PlainCurrentIconOf(v)]
PlainCurrentIcon == PlainCurrentIconTable[currentValue]

\* `lucide:${toKebabCase(pascalName)}`
PlainNewValueOf(pascalName) == LucidePrefix \o toKebabCase(pascalName)
PlainNewValueTable == [n \in Range(ALL_ICONS) |-> PlainNewValueOf(n)]

PlainMount(c) ==
    /\ ~mounted
    /\ mounted' = TRUE
    /\ ctx' = c
    /\ search' = EmptyStr
    /\ lastChoice' = NoChoice
    /\ lastUser' = "none"
    /\ hostSince' = FALSE
    /\ UNCHANGED << resizer, hasUserInteracted, seenInteracted, localValue, selectedValueRef,
                    isExpanded, category, categoryData, syncPending, fetchStatus,
                    requests, userActs >>

PlainHostRender(c) ==
    /\ mounted
    /\ ctx' = c
    /\ hostSince' = TRUE
    /\ UNCHANGED << resizer, mounted, hasUserInteracted, seenInteracted, localValue,
                    selectedValueRef, isExpanded, filterVars, syncPending,
                    requests, choiceVars, lastUser >>

PlainSetSearch(term) ==
    /\ mounted
    /\ term # search
    /\ search' = term
    /\ lastUser' = "other"
    /\ UNCHANGED << resizer, mounted, ctx, hasUserInteracted, seenInteracted, localValue,
                    selectedValueRef, isExpanded, category, categoryData,
                    fetchStatus, syncPending, requests, choiceVars, hostSince >>

\* selectIcon: ctx.setFieldValue and nothing else.
PlainSelectIcon(pascalName) ==
    /\ mounted
    /\ pascalName \in Range(searchedIcons)
    /\ userActs < MaxActs
    /\ requests' = Append(requests,
                          Request(fieldPath, PlainNewValueTable[pascalName], "select"))
    /\ lastChoice' = PlainNewValueTable[pascalName]
    /\ userActs' = userActs + 1
    /\ lastUser' = "select"
    /\ hostSince' = FALSE
    /\ UNCHANGED << resizer, mounted, ctx, hasUserInteracted, seenInteracted, localValue,
                    selectedValueRef, isExpanded, filterVars, syncPending >>

\* clearIcon, behind the Clear button of a current icon.
PlainClearIcon ==
    /\ mounted /\ PlainCurrentIcon
    /\ userActs < MaxActs
    /\ requests' = Append(requests, Request(fieldPath, Null, "clear"))
    /\ lastChoice' = Null
    /\ userActs' = userActs + 1
    /\ lastUser' = "clear"
    /\ hostSince' = FALSE
    /\ UNCHANGED << resizer, mounted, ctx, hasUserInteracted, seenInteracted, localValue,
                    selectedValueRef, isExpanded, filterVars, syncPending >>

NextPlain ==
    \/ \E c \in HostContexts : PlainMount(c)
    \/ \E c \in HostContexts : PlainHostRender(c)
    \/ \E term \in SearchTerms : PlainSetSearch(term)
    \/ \E name \in Range(ALL_ICONS) : PlainSelectIcon(name)
    \/ PlainClearIcon
    \/ \E i \in 1..MaxActs, outcome \in {"resolved", "rejected"} : Settled(i, outcome)
    \/ Unmount

SpecPlain == Init /\ [][NextPlain]_vars

----------------------------------------------------------------------------
(* Claims *)

LastRequest == requests[Len(requests)]

\* The storage form of each catalog icon, as the stored data spells it.
k_arrow_down_az == <<"a","r","r","o","w","-","d","o","w","n","-","a","z">>
StorageName ==
    [n \in Range(ALL_ICONS) |->
        IF n = n_AArrowDown THEN k_a_arrow_down
        ELSE IF n = n_Accessibility THEN k_accessibility
        ELSE k_arrow_down_az]

\* C1: once the user has selected or cleared an icon in this mount, then after
\* any host renders that follow, whatever values they carry, the displayed
\* value is the value that latest selectIcon/clearIcon set.
C1_NeverRevertsToHost ==
    (mounted /\ lastChoice # NoChoice /\ hostSince) => selectedValue = lastChoice

C1_Witness ==
    /\ mounted /\ hostSince /\ ~syncPending
    /\ lastChoice = v_a_arrow_down
    /\ formValue = v_accessibility
    /\ Len(requests) = 2

\* C2: in every state of a mounted widget the displayed value is localValue
\* if hasUserInteracted is true and the host's value otherwise.
C2_DisplayedIsLocalOrHost ==
    mounted => selectedValue = (IF hasUserInteracted THEN localValue ELSE formValue)

\* C3: while the user has not interacted, every host render with a context
\* that holds v makes the displayed value v.
C3_MirrorsHostUntilInteraction ==
    [][\A c \in HostContexts :
         (HostRender(c) /\ ~hasUserInteracted) =>
            selectedValue' = HostStored[c]]_vars

\* C3 for the component that keeps the selection in a ref, where no
\* selectIcon or clearIcon in this mount is what hasInteracted = false means.
C3_RefMirrorsHostUntilInteraction ==
    [][\A c \in HostContexts :
         (RefHostRender(c) /\ lastChoice = NoChoice) =>
            RefSelectedValue' = HostStored[c]]_vars

C6_ClearEmptiesAndWrites ==
    [][clearIcon =>
         /\ hasUserInteracted'
         /\ localValue' = Null
         /\ selectedValue' = Null
         /\ requests' = Append(requests,
               [path |-> HostContextList[ctx].fieldPath, value |-> Null,
                by |-> "clear", status |-> "pending"])]_vars

\* C7: the number of setter calls is the number of selectIcon/clearIcon
\* actions performed, however many host renders are interleaved.
C7_HostRendersNeverWrite == Len(requests) = userActs

C7_Witness ==
    /\ mounted /\ hostSince
    /\ Len(requests) = 1
    /\ formValue = Null
    /\ LastRequest.value = v_a_arrow_down

\* C8: the settlement of a request, resolved or rejected, changes none of
\* hasUserInteracted, localValue, the displayed value and isExpanded.
C8_SettlementChangesNothing ==
    [][\A i \in 1..MaxActs, outcome \in {"resolved", "rejected"} :
         Settled(i, outcome) =>
            /\ UNCHANGED << hasUserInteracted, localValue, isExpanded >>
            /\ selectedValue' = selectedValue]_vars

C8_Witness ==
    /\ mounted /\ hasUserInteracted
    /\ LastRequest.status = "rejected"
    /\ LastRequest.value = v_a_arrow_down
    /\ selectedValue = v_a_arrow_down
    /\ formValue = Null

C10_MountSeedsFromHost ==
    [][\A c \in HostContexts :
         Mount(c) =>
            /\ formValue' = HostStored[c]
            /\ localValue' = HostStored[c]
            /\ ~hasUserInteracted'
            /\ ~isExpanded'
            /\ requests' = requests
            /\ selectedValue' = HostStored[c]
            /\ (HostStored[c] = Null => ~CurrentIcon')]_vars

C10_Witness ==
    /\ mounted /\ lastUser = "none" /\ ~hostSince /\ requests = <<>>
    /\ ctx = 4 /\ selectedValue = v_unknown

\* C11: the picker is shown exactly when isExpanded is true; with no value
\* displayed it stays collapsed until the user opens it.  Stated for the
\* component that keeps the selection in a ref.
C11_RefPickerShownIffExpanded ==
    mounted => (RefShowPicker <=> isExpanded)

\* C11 for the component with the interaction flag.
C11_PickerShownIffExpanded ==
    mounted => /\ showPicker <=> isExpanded
               /\ (selectedValue = Null /\ lastUser = "none") => ~showPicker

\* The stored values that name an icon of the catalog.
NamesCatalogIcon(v) ==
    /\ v # Null
    /\ startsWith(v, LucidePrefix)
    /\ pascalCase(SubSeq(v, Len(LucidePrefix) + 1, Len(v))) \in Range(ALL_ICONS)
NamesCatalogIconTable == [v \in StoredValues |-> NamesCatalogIcon(v)]

C13_ObservationIsIdempotent ==
    [][\A c \in HostContexts :
         (HostRender(c) /\ ~syncPending /\ HostStored[c] = formValue) =>
            /\ formValue' = formValue
            /\ localValue' = localValue
            /\ hasUserInteracted' = hasUserInteracted
            /\ ~syncPending']_vars

C13_Witness ==
    /\ mounted /\ hasUserInteracted /\ hostSince /\ ~syncPending
    /\ formValue = v_accessibility
    /\ localValue = v_a_arrow_down

\* C14: within a mount hasUserInteracted is false until the first selectIcon
\* or clearIcon, true from that action on, and no host render, visibility
\* action, settlement, filter change or fetch completion resets it.
C14_InteractionFlagIsMonotone ==
    [][mounted' =>
         hasUserInteracted' =
            (IF ~mounted THEN FALSE
             ELSE hasUserInteracted \/ userActs' > userActs)]_vars

C14_Witness ==
    /\ mounted /\ hasUserInteracted /\ hostSince /\ isExpanded
    /\ fetchStatus = "done"
    /\ search = q_arrow
    /\ LastRequest.status = "rejected"

\* C15: opening, toggling or cancelling the picker leaves hostValue,
\* localValue, hasUserInteracted and the displayed value unchanged and issues
\* no request; and isExpanded is changed only by those actions and by
\* selectIcon, which sets it to false.
C15_VisibilityAndSelectionIndependent ==
    [][/\ (ToggleExpanded \/ AddClicked) =>
             /\ formValue' = formValue
             /\ localValue' = localValue
             /\ hasUserInteracted' = hasUserInteracted
             /\ requests' = requests
             /\ selectedValue' = selectedValue
       /\ (isExpanded' # isExpanded) =>
             \/ ToggleExpanded
             \/ AddClicked
             \/ (userActs' > userActs /\ lastUser' = "select" /\ ~isExpanded')]_vars

\* The part of C15 that does not speak of the displayed value.
C15_VisibilityFrame ==
    [][/\ (ToggleExpanded \/ AddClicked) =>
             /\ formValue' = formValue
             /\ localValue' = localValue
             /\ hasUserInteracted' = hasUserInteracted
             /\ requests' = requests
       /\ (isExpanded' # isExpanded) =>
             \/ ToggleExpanded
             \/ AddClicked
             \/ (userActs' > userActs /\ lastUser' = "select" /\ ~isExpanded')]_vars

\* C16: selectIcon and clearIcon stay available while earlier requests are
\* unacknowledged; each of them appends exactly one request, carrying the
\* value the user chose; no other step adds, removes, reorders or rewrites
\* a request.
C16_RequestsFollowUserActions ==
    [][/\ (mounted /\ showPicker /\ userActs < MaxActs) =>
             \A n \in Range(filteredIcons) : ENABLED selectIcon(n)
       /\ (mounted /\ RemoveShown /\ userActs < MaxActs) => ENABLED clearIcon
       /\ \A i \in DOMAIN requests :
             /\ i \in DOMAIN requests'
             /\ requests'[i].path = requests[i].path
             /\ requests'[i].value = requests[i].value
       /\ (userActs' = userActs + 1) =>
             /\ Len(requests') = Len(requests) + 1
             /\ requests'[Len(requests')].value = lastChoice'
             /\ requests'[Len(requests')].status = "pending"
       /\ (userActs' = userActs) => Len(requests') = Len(requests)]_vars

C16_Witness ==
    /\ mounted /\ userActs = 2 /\ Len(requests) = 2
    /\ requests[1].status = "pending" /\ requests[1].value = v_a_arrow_down
    /\ requests[2].status = "pending" /\ requests[2].value = Null
    /\ lastChoice = Null

\* The identifiers of the catalog and the values that may be written for them.
CatalogIdentifiers == {n_AArrowDown, n_Accessibility, n_ArrowDownAZ}
WritableValues ==
    {Null} \cup {LucidePrefix \o StorageName[n] : n \in CatalogIdentifiers}

C18_RefResolvesNestedPath ==
    [][\A c \in HostContexts :
         RefMount(c) => RefSelectedValue' = HostStored[c]]_vars

\* C18 for the component with the interaction flag: the resolved value is the
\* stored leaf, and absent when a segment is missing or the tree is null or
\* undefined on the way, the root included.
C18_ResolvesNestedPath ==
    mounted =>
        /\ ctx \in HostContexts => formValue = HostStored[ctx]
        /\ ctx \in AbsentContexts => formValue = Null

\* C19: in every context whose value is absent (missing key, null,
\* undefined, empty string, null root, missing segment), on mount and on any
\* later host render before the user interacts, the widget shows 'no
\* selection' with the Add button, and the render does not throw.
C19_AbsentIsNoSelection ==
    (mounted /\ ~hasUserInteracted /\ ctx \in AbsentContexts) =>
        /\ selectedValue = Null
        /\ ~CurrentIcon
        /\ AddShown
        /\ ~RenderThrows(NodeValue(getNestedValue(CtxOf(ctx).formValues,
                                                   CtxOf(ctx).fieldPath)))
        /\ ~RenderThrows(selectedValue)

C19_Witness ==
    /\ mounted /\ ~hasUserInteracted /\ hostSince /\ ~syncPending
    /\ CtxOf(ctx) = NullRootCtx
    /\ selectedValue = Null /\ AddShown

\* C20: with a category chosen and an empty category index (not loaded yet,
\* or the fetch failed), the filter returns exactly what it returns with no
\* category chosen.
C20_CategoryFilterFailsOpen ==
    (mounted /\ categoryData = EmptyIndex) =>
        /\ filteredIcons = FilterTable[search, "", EmptyIndex]
        /\ search = EmptyStr => filteredIcons = ALL_ICONS

C20_Witness ==
    /\ mounted /\ isExpanded
    /\ category = "medical" /\ categoryData = EmptyIndex
    /\ fetchStatus = "failed"
    /\ search = q_ACC
    /\ filteredIcons = << n_Accessibility >>

\* The category tags the fetched index gives each catalog identifier, and
\* the identifiers whose name contains each search term, written out.
IndexedTags ==
    [n \in CatalogIdentifiers |->
        IF n = n_AArrowDown THEN {"arrows"}
        ELSE IF n = n_Accessibility THEN {"accessibility", "medical"}
        ELSE {}]
NamesContaining ==
    [term \in SearchTerms |->
        IF term = q_arrow THEN {n_AArrowDown, n_ArrowDownAZ}
        ELSE IF term = q_ACC THEN {n_Accessibility}
        ELSE CatalogIdentifiers]

\* C21: with a category chosen and a non-empty index, the category stage
\* keeps exactly the entries whose kebab-case name maps to a set holding the
\* tag; an entry without an index entry is excluded under every category and
\* kept when no category is chosen.
C21_CategoryStageKeepsTagged ==
    (mounted /\ categoryData = FixtureIndex) =>
        LET Tagged(n) == category = "" \/ category \in IndexedTags[n]
        IN /\ \A n \in Range(filteredIcons) : Tagged(n)
           /\ search = EmptyStr => filteredIcons = SelectSeq(ALL_ICONS, Tagged)
           /\ category # "" => n_ArrowDownAZ \notin Range(filteredIcons)
           /\ (category = "" /\ search = EmptyStr) =>
                 n_ArrowDownAZ \in Range(filteredIcons)

C21_Witness ==
    /\ mounted /\ isExpanded /\ fetchStatus = "done"
    /\ categoryData = FixtureIndex /\ category = "medical" /\ search = EmptyStr
    /\ filteredIcons = << n_Accessibility >>

\* C22: the search stage, applied to what the category stage kept, keeps
\* exactly the entries whose name contains the search term somewhere,
\* letter case ignored; an empty term keeps every entry.
C22_SearchStageKeepsSubstringMatches ==
    mounted =>
        LET Matches(n) == n \in NamesContaining[search]
        IN filteredIcons =
              SelectSeq(FilterTable[EmptyStr, category, categoryData], Matches)

C22_Witness ==
    /\ mounted /\ isExpanded
    /\ search = q_arrow /\ category = "arrows" /\ categoryData = FixtureIndex
    /\ filteredIcons = << n_AArrowDown >>

\* C23: the filter result is every catalog entry that passes the stages, in
\* catalog order, with none cut off by a cap on the number of results.
\* Stated for the first component, over a library of more than a hundred
\* icons.
C23_PlainNoMatchOmitted ==
    mounted =>
        LET Matches(n) ==
                search = EmptyStr \/ includes(toLowerCase(n), toLowerCase(search))
        IN \A i \in DOMAIN LargeCatalog :
              Matches(LargeCatalog[i]) => LargeCatalog[i] \in Range(searchedIcons)

\* C23 for the component with the interaction flag: the list is exactly the
\* entries that pass both stages, in catalog order.
C23_NoMatchOmitted ==
    mounted =>
        LET Passes(n) ==
                /\ (category = "" \/ categoryData = EmptyIndex
                       \/ category \in IndexedTags[n])
                /\ n \in NamesContaining[search]
        IN filteredIcons = SelectSeq(ALL_ICONS, Passes)

\* C24: the two casing conversions are inverses on the catalog: the value
\* written by selecting an identifier names, once converted back, that same
\* identifier.  Stated for the first component's toKebabCase / toPascalCase.
C24_PlainRoundTrip ==
    [][\A n \in Range(ALL_ICONS) :
          PlainSelectIcon(n) =>
              toPascalCase(PlainIconNameOf(requests'[Len(requests')].value)) = n]_vars

\* C24 for the component with the interaction flag (kebabCase / pascalCase of
\* the change-case package).
C24_RoundTrip ==
    [][\A n \in Range(ALL_ICONS) :
          selectIcon(n) =>
              pascalCase(currentIconNameOf(requests'[Len(requests')].value)) = n]_vars

\* The fetch of this mount has completed or failed in the step.
FetchEnds == fetchStatus = "pending" /\ fetchStatus' \in {"done", "failed"}

\* C25: the category fetch is started once per mount and never blocks the
\* widget; a failed fetch leaves the category index empty; and neither the
\* completion nor the failure of the fetch changes hostValue, localValue,
\* hasUserInteracted or the displayed value.
C25_FetchLeavesSelectionAlone ==
    [][/\ (fetchStatus' = "pending" /\ fetchStatus # "pending") => (~mounted /\ mounted')
       /\ (FetchEnds /\ fetchStatus' = "failed") => categoryData' = EmptyIndex
       /\ FetchEnds =>
             /\ formValue' = formValue
             /\ localValue' = localValue
             /\ hasUserInteracted' = hasUserInteracted
             /\ selectedValue' = selectedValue]_vars

\* The part of C25 that does not speak of the displayed value.
C25_FetchFrame ==
    [][/\ (fetchStatus' = "pending" /\ fetchStatus # "pending") => (~mounted /\ mounted')
       /\ (FetchEnds /\ fetchStatus' = "failed") => categoryData' = EmptyIndex
       /\ FetchEnds =>
             /\ formValue' = formValue
             /\ localValue' = localValue
             /\ hasUserInteracted' = hasUserInteracted
             /\ isExpanded' = isExpanded
             /\ requests' = requests]_vars

\* The widget is usable while the fetch is outstanding.
C25_UsableBeforeFetchEnds ==
    mounted /\ fetchStatus = "pending" /\ lastUser = "select" /\ hasUserInteracted

\* C26: a lookup miss is not an error: when the displayed value names an
\* icon the lookup does not contain, no icon is rendered for it, the widget
\* shows the view of no selection (Add, neither Change nor Remove) and the
\* render does not throw.
C26_LookupMissShowsNoSelection ==
    (/\ mounted
     /\ selectedValue \notin {Null, Undefined, EmptyStr, ObjectValue}
     /\ pascalCase(replaceFirst(selectedValue, LucidePrefix)) \notin Range(LucideExports)) =>
        /\ ~CurrentIcon
        /\ AddShown /\ ~ChangeShown /\ ~RemoveShown
        /\ ~RenderThrows(selectedValue)

C26_Witness ==
    /\ mounted /\ hostSince /\ ~syncPending
    /\ selectedValue = v_unknown
    /\ ~CurrentIcon /\ AddShown

\* C27: automatic resizing is active exactly while the widget is mounted:
\* startAutoResizer is called by the effects of the mount; every
\* stopAutoResizer issued while mounted is immediately followed by a
\* startAutoResizer, so that no step of a mounted widget leaves the resizer
\* stopped; and after unmount the stops equal the starts, for any number of
\* host renders.
C27_ResizerFollowsMount ==
    /\ resizer.running \in {0, 1}
    /\ ~mounted => (resizer.running = 0 /\ ~resizer.pending)
    /\ (mounted /\ ~resizer.pending) => resizer.running = 1
    /\ (mounted /\ resizer.running = 0) => (resizer.pending /\ ~hostSince)

\* The widget has been rendered again by the host after a selection, and the
\* effects of that render have run.
C27_Witness ==
    /\ mounted /\ hostSince
    /\ ~resizer.pending
    /\ resizer.running = 1
    /\ Len(requests) > 0

\* The widget has been unmounted after host renders.
C27_Unmounted ==
    ~mounted /\ Len(requests) > 0 /\ resizer.running = 0

\* C28: selecting the catalog entry X calls the host setter with the field
\* path and 'lucide:' followed by X as the catalog spells it, and the
\* displayed value becomes that same string.
C28_SelectWritesDisplayForm ==
    [][\A n \in Range(ALL_ICONS) :
          selectIcon(n) =>
              /\ requests'[Len(requests')].path = fieldPath
              /\ requests'[Len(requests')].value = LucidePrefix \o n
              /\ selectedValue' = LucidePrefix \o n]_vars

\* C29: a host render that occurs while hasUserInteracted is set, and the
\* effects it schedules, change only the host value (to the value the host
\* passed): localValue, hasUserInteracted and isExpanded stay as they are and
\* no request is issued, whatever the order and number of host renders and
\* user actions.
C29_HostRenderWhileInteracted ==
    [][/\ \A c \in HostContexts :
             (hasUserInteracted /\ HostRender(c)) =>
                 /\ formValue' = HostStored[c]
                 /\ localValue' = localValue
                 /\ hasUserInteracted'
                 /\ isExpanded' = isExpanded
                 /\ requests' = requests
       /\ (hasUserInteracted /\ RunSyncEffect) =>
             /\ formValue' = formValue
             /\ localValue' = localValue
             /\ hasUserInteracted'
             /\ isExpanded' = isExpanded
             /\ requests' = requests]_vars

C29_Witness ==
    /\ mounted /\ hasUserInteracted
    /\ hostSince /\ ~syncPending /\ ~resizer.pending
    /\ formValue = v_accessibility
    /\ localValue = v_a_arrow_down
    /\ lastChoice = v_a_arrow_down

\* C30: a rejected request is handled inside the component, for selectIcon
\* and for clearIcon alike: it is at most written to the console and never
\* leaves the component as an unhandled failure.
C30_RejectionsAreHandled ==
    \A i \in DOMAIN requests :
        requests[i].status = "rejected" => CatchesRejection(requests[i].by)

\* The part of C30 that is about selectIcon.
C30_SelectRejectionsAreLogged ==
    \A i \in DOMAIN requests :
        (requests[i].by = "select" /\ requests[i].status = "rejected") =>
            CatchesRejection(requests[i].by)

\* C31: when the user selects or clears while the synchronisation of
\* localValue to an observed host value is still to run, that
\* synchronisation, whenever it runs (on its own or flushed by the next
\* host render), reads hasUserInteracted then and leaves localValue as the
\* user set it.
C31_PendingSyncSparesChoice ==
    [][(/\ syncPending
        /\ lastChoice # NoChoice
        /\ (RunSyncEffect \/ \E c \in HostContexts : HostRender(c))) =>
           /\ localValue' = lastChoice
           /\ localValue' = localValue
           /\ hasUserInteracted']_vars

\* The user has chosen an icon other than the host's while the effect was
\* pending, and the effect has run since.
C31_Witness ==
    /\ mounted /\ hasUserInteracted
    /\ ~syncPending /\ ~hostSince
    /\ lastUser = "select"
    /\ formValue = v_accessibility
    /\ localValue = v_a_arrow_down
    /\ selectedValue = v_a_arrow_down

\* The race itself: the effect of a host render is still to run when the
\* user's choice is made.
C31_RaceState ==
    /\ mounted /\ syncPending /\ hasUserInteracted /\ ~hostSince
    /\ Len(requests) = 1
    /\ formValue = v_accessibility
    /\ localValue = v_a_arrow_down

\* C32: in every state with hasUserInteracted set, localValue, and with it
\* the displayed value, is the value carried by the request issued last,
\* whatever the host has rendered and whichever requests have settled since.
C32_InteractedShowsLastRequest ==
    (mounted /\ hasUserInteracted) =>
        /\ requests # <<>>
        /\ localValue = LastRequest.value
        /\ selectedValue = LastRequest.value

\* The part of C32 that is about localValue.
C32_LocalIsLastRequest ==
    (mounted /\ hasUserInteracted) =>
        /\ requests # <<>>
        /\ localValue = LastRequest.value
        /\ seenInteracted => selectedValue = LastRequest.value

\* Host renders and a rejection have followed the user's choice.
C32_LocalKeptSinceRequest ==
    /\ mounted /\ hasUserInteracted /\ hostSince /\ ~syncPending
    /\ LastRequest.status = "rejected"
    /\ formValue # localValue
    /\ localValue = LastRequest.value

\* C33: in every state with the picker expanded the user can collapse it by
\* an explicit cancel, also when no icon is displayed (the picker opened
\* through Add, or the selection removed while the picker was open).
C33_ExpandedCanBeCancelled ==
    (mounted /\ isExpanded) => CancelShown

\* The cancel that exists, beside a current icon, collapses the picker and
\* changes nothing else of the selection.
C33_CancelOnlyCollapses ==
    [][(CancelShown /\ ToggleExpanded) =>
          /\ ~isExpanded'
          /\ formValue' = formValue
          /\ localValue' = localValue
          /\ hasUserInteracted' = hasUserInteracted
          /\ requests' = requests]_vars

\* C34: in every state where the displayed stored value is not empty the
\* user can clear it: Remove is available, also when the value names an icon
\* the lookup does not contain.
C34_NonEmptyCanBeRemoved ==
    (mounted /\ selectedValue \notin {Null, Undefined, EmptyStr}) => RemoveShown

\* The part of C34 about values whose icon the lookup contains.
C34_KnownIconCanBeRemoved ==
    (mounted /\ selectedValue \in {v_accessibility, v_a_arrow_down}) =>
        (RemoveShown /\ ~AddShown)

\* C35: with a host that applies the requests in the order they were
\* issued, rejects none and keeps reporting the value it holds, the value
\* observed from the host eventually equals localValue (the last write) and
\* stays equal once the user has stopped selecting and clearing; and until
\* then, as after, the displayed value is the user's last choice.
C35_LastWriteWins ==
    /\ []((mounted /\ lastChoice # NoChoice) =>
             (localValue = lastChoice /\ selectedValue = lastChoice))
    /\ <>[](mounted => (formValue = localValue /\ selectedValue = localValue
                        /\ \A i \in DOMAIN requests : requests[i].status = "resolved"))

\* Two different writes have been applied in order and reported back.
C35_Witness ==
    /\ mounted /\ hasUserInteracted /\ ~syncPending /\ hostSince
    /\ Len(requests) = 2
    /\ requests[1].value # requests[2].value
    /\ \A i \in DOMAIN requests : requests[i].status = "resolved"
    /\ formValue = LastRequest.value
    /\ localValue = LastRequest.value

\* The host has reported the first write while the second is the choice
\* displayed.
C35_Overlap ==
    /\ mounted /\ hostSince /\ Len(requests) = 2
    /\ requests[1].status = "resolved" /\ requests[2].status = "pending"
    /\ formValue = requests[1].value
    /\ formValue # localValue
    /\ selectedValue = requests[2].value

====
